---- MODULE Spec2Model ----
(***************************************************************************)
(* A model of the course crawler: the crawl loop of go (src/src/crawler.py)*)
(* with its URL policy (src/src/util.py), the per-page indexer build_index *)
(* and its common-word filter, and the keyword search (src/src/search.py). *)
(*                                                                         *)
(* Python strings are modelled as sequences of one-character strings, so   *)
(* that lower(), strip(), split(), the word regex, urlparse and urljoin    *)
(* are computed on characters, as the code computes them.                  *)
(***************************************************************************)
EXTENDS Integers, Sequences, FiniteSets, TLC

(***************************************************************************)
(* Bounds of the model.                                                    *)
(***************************************************************************)
\* largest page budget n passed to go
MaxN == 3
\* largest number of keywords in a search call
MaxKeywords == 2
\* largest number of identifiers in an index handed to search
MaxIds == 3

(***************************************************************************)
(* Characters and Python string operations.                                *)
(***************************************************************************)
Uppers == <<"A","B","C","D","E","F","G","H","I","J","K","L","M","N","O","P","Q","R","S","T","U","V","W","X","Y","Z">>
Lowers == <<"a","b","c","d","e","f","g","h","i","j","k","l","m","n","o","p","q","r","s","t","u","v","w","x","y","z">>
Accented == {"á", "é", "í", "ó", "ú", "ñ"}
Digits == {"0", "1", "2", "3", "4", "5", "6", "7", "8", "9"}

Range(s) == {s[i] : i \in 1..Len(s)}

IsLetter(c) == c \in Range(Uppers) \cup Range(Lowers) \cup Accented

\* the characters of the regex class [A-Za-z0-9Á-Úá-ú_] (all of them are \w)
IsWordChar(c) == IsLetter(c) \/ c \in Digits \/ c = "_"

\* str.lower() on one character
LowerChar(c) ==
    IF \E i \in 1..Len(Uppers) : Uppers[i] = c
    THEN Lowers[CHOOSE i \in 1..Len(Uppers) : Uppers[i] = c]
    ELSE c

\* str.lower()
Lower(s) == [i \in 1..Len(s) |-> LowerChar(s[i])]

\* str.startswith(p)
StartsWith(s, p) == Len(s) >= Len(p) /\ SubSeq(s, 1, Len(p)) = p

\* str.endswith(p)
EndsWith(s, p) == Len(s) >= Len(p) /\ SubSeq(s, Len(s) - Len(p) + 1, Len(s)) = p

\* p in s (substring test)
Contains(s, p) ==
    \E i \in 1..(Len(s) - Len(p) + 1) : SubSeq(s, i, i + Len(p) - 1) = p

\* str.find(c) for a one-character c, 1-based; 0 when c does not occur
Find(s, c) ==
    IF \E i \in 1..Len(s) : s[i] = c
    THEN CHOOSE i \in 1..Len(s) : s[i] = c /\ \A j \in 1..(i - 1) : s[j] # c
    ELSE 0

\* the k-th smallest member of a finite set of integers
Nth(S, k) == CHOOSE x \in S : Cardinality({y \in S : y < x}) = k - 1

\* str.split(c) for a one-character separator c
Split(s, c) ==
    LET seps == {i \in 1..Len(s) : s[i] = c}
        m == Cardinality(seps)
        Bound(k) == IF k = 0 THEN 0 ELSE IF k = m + 1 THEN Len(s) + 1 ELSE Nth(seps, k)
    IN  [k \in 1..(m + 1) |-> SubSeq(s, Bound(k - 1) + 1, Bound(k) - 1)]

\* sep.join(parts)
RECURSIVE Join(_, _)
Join(parts, sep) ==
    IF parts = <<>> THEN <<>>
    ELSE IF Len(parts) = 1 THEN parts[1]
    ELSE parts[1] \o sep \o Join(Tail(parts), sep)

\* str.strip(): the model's only whitespace character is the space
RECURSIVE LStrip(_)
LStrip(s) == IF s # <<>> /\ Head(s) = " " THEN LStrip(Tail(s)) ELSE s

RECURSIVE RStrip(_)
RStrip(s) ==
    IF s # <<>> /\ s[Len(s)] = " " THEN RStrip(SubSeq(s, 1, Len(s) - 1)) ELSE s

Strip(s) == RStrip(LStrip(s))

\* [x for x in s if x]: the non-empty members of a list
NonEmpty(s) == SelectSeq(s, LAMBDA x : x # <<>>)

\* concatenation of a list of lists
RECURSIVE Flatten(_)
Flatten(ss) == IF ss = <<>> THEN <<>> ELSE Head(ss) \o Flatten(Tail(ss))

IsDuplicateFree(s) == \A i, j \in 1..Len(s) : s[i] = s[j] => i = j

(***************************************************************************)
(* urllib.parse as used by util.py and crawler.py.                         *)
(***************************************************************************)
\* schemes of urllib.parse.uses_relative / uses_netloc that the model can spell
uses_relative == {<<>>, <<"h","t","t","p">>, <<"h","t","t","p","s">>, <<"f","t","p">>, <<"f","i","l","e">>}
uses_netloc == {<<>>, <<"h","t","t","p">>, <<"h","t","t","p","s">>, <<"f","t","p">>, <<"f","i","l","e">>}

\* the characters urlsplit accepts in a scheme
IsSchemeChar(c) == (IsLetter(c) /\ c \notin Accented) \/ c \in Digits \/ c \in {"+", "-", "."}

\* position of the first character of s that is in the set cs; Len(s)+1 if none
FirstOf(s, cs) ==
    IF \E i \in 1..Len(s) : s[i] \in cs
    THEN CHOOSE i \in 1..Len(s) : s[i] \in cs /\ \A j \in 1..(i - 1) : s[j] \notin cs
    ELSE Len(s) + 1

\* urlparse proceeds in stages, each handing what it found to the next one.
\* Last stage: url.split("?", 1), with q = url.find("?")
ParseQuery(scheme, netloc, rest, fragment, q) ==
    [scheme |-> scheme, netloc |-> netloc,
     path |-> IF q = 0 THEN rest ELSE SubSeq(rest, 1, q - 1),
     query |-> IF q = 0 THEN <<>> ELSE SubSeq(rest, q + 1, Len(rest)),
     fragment |-> fragment]

ParseAfterFragment(scheme, netloc, rest, fragment) ==
    ParseQuery(scheme, netloc, rest, fragment, Find(rest, "?"))

\* url.split("#", 1), with f = url.find("#")
ParseFragment(scheme, netloc, rest, f) ==
    ParseAfterFragment(scheme, netloc,
                       IF f = 0 THEN rest ELSE SubSeq(rest, 1, f - 1),
                       IF f = 0 THEN <<>> ELSE SubSeq(rest, f + 1, Len(rest)))

ParseAfterNetloc(scheme, netloc, rest) ==
    ParseFragment(scheme, netloc, rest, Find(rest, "#"))

\* _splitnetloc(url, 2): the netloc ends before the first of "/", "?", "#"
ParseNetloc(scheme, after, nend) ==
    ParseAfterNetloc(scheme, SubSeq(after, 1, nend - 1), SubSeq(after, nend, Len(after)))

\* if url[:2] == "//": split the netloc off
ParseAfterScheme(scheme, rest) ==
    IF StartsWith(rest, <<"/","/">>)
    THEN ParseNetloc(scheme, SubSeq(rest, 3, Len(rest)),
                     FirstOf(SubSeq(rest, 3, Len(rest)), {"/", "?", "#"}))
    ELSE ParseAfterNetloc(scheme, <<>>, rest)

\* i = url.find(":"): a scheme is split off when url[:i] is a valid scheme
ParseScheme(url, default, i) ==
    IF /\ i > 1
       /\ IsLetter(url[1]) /\ url[1] \notin Accented
       /\ \A j \in 1..(i - 1) : IsSchemeChar(url[j])
    THEN ParseAfterScheme(Lower(SubSeq(url, 1, i - 1)), SubSeq(url, i + 1, Len(url)))
    ELSE ParseAfterScheme(default, url)

\* urlparse(url, scheme=default): scheme, netloc, path, query, fragment
urlparse_default(url, default) == ParseScheme(url, default, Find(url, ":"))

urlparse(url) == urlparse_default(url, <<>>)

\* urlunparse
UnparseTail(u, p) ==
    (IF p.scheme # <<>> THEN p.scheme \o <<":">> ELSE <<>>)
    \o u
    \o (IF p.query # <<>> THEN <<"?">> \o p.query ELSE <<>>)
    \o (IF p.fragment # <<>> THEN <<"#">> \o p.fragment ELSE <<>>)

urlunparse(p) ==
    UnparseTail(IF p.netloc # <<>>
                   \/ (p.scheme # <<>> /\ p.scheme \in uses_netloc
                       /\ ~StartsWith(p.path, <<"/","/">>))
                THEN <<"/","/">> \o p.netloc
                     \o (IF p.path # <<>> /\ Head(p.path) # "/" THEN <<"/">> ELSE <<>>)
                     \o p.path
                ELSE p.path,
                p)

\* the dot-segment removal loop of urljoin
RECURSIVE ResolveSegments(_, _)
ResolveSegments(segments, resolved) ==
    IF segments = <<>> THEN resolved
    ELSE IF Head(segments) = <<".",".">>
    THEN ResolveSegments(Tail(segments),
                         IF resolved = <<>> THEN <<>>
                         ELSE SubSeq(resolved, 1, Len(resolved) - 1))
    ELSE IF Head(segments) = <<".">>
    THEN ResolveSegments(Tail(segments), resolved)
    ELSE ResolveSegments(Tail(segments), Append(resolved, Head(segments)))

\* segments[1:-1] = filter(None, segments[1:-1])
FilterMiddle(segments) ==
    IF Len(segments) <= 2 THEN segments
    ELSE <<segments[1]>>
         \o NonEmpty(SubSeq(segments, 2, Len(segments) - 1))
         \o <<segments[Len(segments)]>>

\* base_parts = bpath.split("/"), without its last part unless that is empty
BaseParts(bparts) ==
    IF bparts[Len(bparts)] # <<>> THEN SubSeq(bparts, 1, Len(bparts) - 1) ELSE bparts

\* "/".join(resolved_path) or "/"
JoinedPath(resolved_path) ==
    IF Join(resolved_path, <<"/">>) = <<>> THEN <<"/">> ELSE Join(resolved_path, <<"/">>)

\* the path of the joined URL, from the segments to resolve
ResolvedPath(segments) ==
    JoinedPath(IF segments[Len(segments)] \in {<<".">>, <<".",".">>}
               THEN Append(ResolveSegments(segments, <<>>), <<>>)
               ELSE ResolveSegments(segments, <<>>))

\* urljoin once both URLs are parsed: b is the base, r the reference
JoinParsed(b, r, url) ==
    IF r.scheme # b.scheme \/ r.scheme \notin uses_relative THEN url
    ELSE IF r.scheme \in uses_netloc /\ r.netloc # <<>> THEN urlunparse(r)
    ELSE IF r.path = <<>>
    THEN urlunparse([scheme |-> r.scheme,
                     netloc |-> IF r.scheme \in uses_netloc THEN b.netloc ELSE r.netloc,
                     path |-> b.path,
                     query |-> IF r.query = <<>> THEN b.query ELSE r.query,
                     fragment |-> r.fragment])
    ELSE urlunparse([scheme |-> r.scheme,
                     netloc |-> IF r.scheme \in uses_netloc THEN b.netloc ELSE r.netloc,
                     path |-> ResolvedPath(
                                  IF Head(r.path) = "/" THEN Split(r.path, "/")
                                  ELSE FilterMiddle(BaseParts(Split(b.path, "/"))
                                                    \o Split(r.path, "/"))),
                     query |-> r.query, fragment |-> r.fragment])

JoinWithBase(b, url) == JoinParsed(b, urlparse_default(url, b.scheme), url)

\* urllib.parse.urljoin(base, url)
urljoin(base, url) ==
    IF base = <<>> THEN url
    ELSE IF url = <<>> THEN base
    ELSE JoinWithBase(urlparse(base), url)

(***************************************************************************)
(* util.py: the URL policy.                                                *)
(***************************************************************************)
is_absolute_url(url) == urlparse(url).netloc # <<>>

\* None is returned for an absolute URL
None == [none |-> TRUE]

convert_if_relative_url(url1, url2) ==
    IF ~is_absolute_url(url2) THEN urljoin(url1, url2) ELSE None

\* lines 77-90, with parsed_url = urlparse(url)
OkToFollowParsed(url, domain, parsed_url) ==
    IF parsed_url.netloc # domain THEN FALSE
    ELSE IF Contains(url, <<"@">>) \/ Contains(url, <<"m","a","i","l","t","o",":">>) THEN FALSE
    ELSE IF EndsWith(parsed_url.path, <<"/">>) \/ EndsWith(parsed_url.path, <<".","h","t","m","l">>)
    THEN TRUE
    ELSE IF ~Contains(Split(parsed_url.path, "/")[Len(Split(parsed_url.path, "/"))], <<".">>)
    THEN TRUE
    ELSE FALSE

is_url_ok_to_follow(url, domain) ==
    IF ~StartsWith(url, <<"h","t","t","p">>) THEN FALSE
    ELSE OkToFollowParsed(url, domain, urlparse(url))

START_URL == <<"h","t","t","p","s",":","/","/","e","d","u","c","a","c","i","o","n","v","i","r","t","u","a","l",".","j","a","v","e","r","i","a","n","a",".","e","d","u",".","c","o","/","n","u","e","s","t","r","o","s","-","p","r","o","g","r","a","m","a","s","-","n","u","e","v","o">>
\* DOMAIN of crawler.py (DOMAIN is a reserved word of TLA+)
CRAWL_DOMAIN == <<"e","d","u","c","a","c","i","o","n","v","i","r","t","u","a","l",".","j","a","v","e","r","i","a","n","a",".","e","d","u",".","c","o">>


(***************************************************************************)
(* Python dicts keep insertion order: a dict is a list of [k, v] entries   *)
(* with distinct keys.                                                     *)
(***************************************************************************)
Keys(d) == {d[i].k : i \in 1..Len(d)}

KeyList(d) == [i \in 1..Len(d) |-> d[i].k]

\* d[key], for a key of d
Get(d, key) == d[CHOOSE i \in 1..Len(d) : d[i].k = key].v

\* d.get(key, default)
dict_get(d, key, default) == IF key \in Keys(d) THEN Get(d, key) ELSE default

\* d[key] = value
dict_set(d, key, value) ==
    IF key \in Keys(d)
    THEN [i \in 1..Len(d) |-> IF d[i].k = key THEN [k |-> key, v |-> value] ELSE d[i]]
    ELSE Append(d, [k |-> key, v |-> value])

(***************************************************************************)
(* crawler.py: the word regex.                                             *)
(***************************************************************************)
\* word_pattern.findall(text): every maximal run of word characters that
\* starts with a letter and has two characters or more, from left to right
findall(text) ==
    LET starts == {i \in 1..Len(text) :
                      IsWordChar(text[i]) /\ (i = 1 \/ ~IsWordChar(text[i - 1]))}
        RunEnd(i) == CHOOSE e \in i..Len(text) :
                         /\ \A j \in i..e : IsWordChar(text[j])
                         /\ (e = Len(text) \/ ~IsWordChar(text[e + 1]))
        matches == {i \in starts : IsLetter(text[i]) /\ RunEnd(i) > i}
    IN  [k \in 1..Cardinality(matches) |->
            SubSeq(text, Nth(matches, k), RunEnd(Nth(matches, k)))]

(***************************************************************************)
(* The parsed page.  A div is [titles, descs, hrefs, subs, card]: the      *)
(* texts of its own b.card-title, p.card-text and a[href] elements, its    *)
(* descendant divs, and whether its class is card-body.  In document order *)
(* a div's own elements come before its nested divs; nested divs hold no   *)
(* further divs.  A page is [hrefs, divs]: the hrefs of the anchors        *)
(* outside every div, then its top-level divs.                             *)
(***************************************************************************)
RECURSIVE FlatField(_, _)
FlatField(divs, f) ==
    IF divs = <<>> THEN <<>> ELSE Head(divs)[f] \o FlatField(Tail(divs), f)

\* the b.card-title / p.card-text / a[href] elements below a tag, in document order
AllTitles(tag) == tag.titles \o FlatField(tag.subs, "titles")
AllDescs(tag) == tag.descs \o FlatField(tag.subs, "descs")
AllHrefs(tag) == tag.hrefs \o FlatField(tag.subs, "hrefs")

\* util.find_sequence(tag): tag.find_all("div")
find_sequence(tag) == tag.subs

StripAll(texts) == [i \in 1..Len(texts) |-> Strip(texts[i])]

\* util.extract_course_title(block)
extract_course_title(block) ==
    IF AllTitles(block) # <<>> THEN Strip(Head(AllTitles(block))) ELSE <<>>

\* util.extract_course_description(block)
extract_course_description(block) ==
    IF AllDescs(block) # <<>> THEN Join(StripAll(AllDescs(block)), <<" ">>) ELSE <<>>

\* soup.find_all("div", class_="card-body"), in document order
RECURSIVE CardBodies(_)
CardBodies(divs) ==
    IF divs = <<>> THEN <<>>
    ELSE (IF Head(divs).card THEN <<Head(divs)>> ELSE <<>>)
         \o CardBodies(Head(divs).subs) \o CardBodies(Tail(divs))

\* soup.find_all("a", href=True), in document order
RECURSIVE DivHrefs(_)
DivHrefs(divs) ==
    IF divs = <<>> THEN <<>> ELSE AllHrefs(Head(divs)) \o DivHrefs(Tail(divs))

PageHrefs(page) == page.hrefs \o DivHrefs(page.divs)

(***************************************************************************)
(* crawler.py: identify_common_words.                                      *)
(***************************************************************************)
THRESHOLD == 10

COMMON_WORDS ==
    {<<"h","o","r","a">>, <<"h","o","r","a","s">>, <<"d","u","r","a","c","i","ó","n">>, <<"p","r","e","c","i","o">>, <<"d","e">>, <<"l","a">>,
     <<"a","l">>, <<"e","l">>, <<"e","n">>, <<"s","u">>, <<"c","o","n">>}

\* the text the word counts are taken from: title + " " + description of every card
RECURSIVE CombinedText(_)
CombinedText(course_blocks) ==
    IF course_blocks = <<>> THEN <<>>
    ELSE extract_course_title(Head(course_blocks)) \o <<" ">>
         \o extract_course_description(Head(course_blocks))
         \o CombinedText(Tail(course_blocks))

\* Counter(words)[word]
Count(words, word) == Cardinality({i \in 1..Len(words) : words[i] = word})

\* the words identify_common_words returns (used for membership tests only)
identify_common_words(course_blocks, threshold) ==
    LET words == findall(Lower(CombinedText(course_blocks)))
    IN  {w \in Range(words) : Count(words, w) >= threshold} \cup COMMON_WORDS

(***************************************************************************)
(* crawler.py: build_index.                                                *)
(***************************************************************************)
ID_NOT_FOUND == <<"I","D"," ","n","o","t"," ","f","o","u","n","d">>

\* mutant of AddWords: words are added only to a list that is still empty
AddWords_OnlyToEmpty(lst, words) == IF lst = <<>> THEN words ELSE lst

\* mutant of AddWords: every word is appended, present or not
AddWords_AppendAll(lst, words) == lst \o words

\* mutant of AddWords: the list is replaced by the new words
AddWords_Replace(lst, words) == words

\* for word in words: if word not in lst: lst.append(word)
RECURSIVE AddWords(_, _)
AddWords(lst, words) ==
    IF words = <<>> THEN lst
    ELSE AddWords(IF Head(words) \in Range(lst) THEN lst ELSE Append(lst, Head(words)),
                  Tail(words))

\* [word for word in words if word not in common_words]
FilterCommon(words, common_words) == SelectSeq(words, LAMBDA w : w \notin common_words)

\* mutant of CardText: the description is used whether or not the card has nested blocks
CardText_AlwaysDescription(card) ==
    extract_course_title(card) \o <<" ">> \o extract_course_description(card)

\* the text of a card that is tokenised for the card's own identifier
CardText(card) ==
    IF Len(find_sequence(card)) = 0
    THEN extract_course_title(card) \o <<" ">> \o extract_course_description(card)
    ELSE extract_course_title(card)

\* the words a nested block adds to its identifier
SequenceWords(sequence) ==
    findall(Lower(extract_course_description(sequence)))

\* index[course_id] = [] unless course_id is a key already
EnsureEntry(index, course_id) ==
    IF course_id \in Keys(index) THEN index ELSE dict_set(index, course_id, <<>>)

\* the loop over the nested blocks of one card; st is [index, course_urls, raised]
RECURSIVE FoldSequences(_, _, _, _)
FoldSequences(st, sequences, common_words, course_dict) ==
    IF sequences = <<>> THEN st
    ELSE
    LET sequence == Head(sequences)
        course_title == extract_course_title(sequence)
        course_id == dict_get(course_dict, course_title, ID_NOT_FOUND)
        description == extract_course_description(sequence)
        index1 == EnsureEntry(st.index, course_id)
        st1 == IF course_title = <<>> \/ course_id = ID_NOT_FOUND THEN st
               ELSE IF description = <<>> THEN [st EXCEPT !.index = index1]
               ELSE [st EXCEPT !.index =
                        dict_set(index1, course_id,
                                 AddWords(Get(index1, course_id),
                                          SequenceWords(sequence)))]
    IN  FoldSequences(st1, Tail(sequences), common_words, course_dict)

\* mutant of NeedsUrl: the URL is written at every sighting
NeedsUrl_Always(course_urls, course_id) == TRUE

\* "if course_id not in course_urls"
NeedsUrl(course_urls, course_id) == course_id \notin Keys(course_urls)

\* one iteration of the loop over the cards; raised is the TypeError of
\* card.find("a", href=True)["href"] on a card without an anchor
FoldCard(st, card, common_words, url, course_dict) ==
    LET sequences == find_sequence(card)
        course_title == extract_course_title(card)
        words == FilterCommon(findall(Lower(CardText(card))), common_words)
        course_id == dict_get(course_dict, course_title, ID_NOT_FOUND)
        needs_url == NeedsUrl(st.course_urls, course_id)
        index1 == EnsureEntry(st.index, course_id)
    IN  IF course_title = <<>> THEN st
        ELSE IF course_id = ID_NOT_FOUND
        THEN FoldSequences(st, sequences, common_words, course_dict)
        ELSE IF needs_url /\ AllHrefs(card) = <<>> THEN [st EXCEPT !.raised = TRUE]
        ELSE FoldSequences(
                 [st EXCEPT
                     !.course_urls =
                         IF needs_url
                         THEN dict_set(@, course_id, urljoin(url, Head(AllHrefs(card))))
                         ELSE @,
                     !.index = dict_set(index1, course_id,
                                        AddWords(Get(index1, course_id), words))],
                 sequences, common_words, course_dict)

RECURSIVE FoldCards(_, _, _, _, _)
FoldCards(st, cards, common_words, url, course_dict) ==
    IF cards = <<>> \/ st.raised THEN st
    ELSE FoldCards(FoldCard(st, Head(cards), common_words, url, course_dict),
                   Tail(cards), common_words, url, course_dict)

\* build_index(index, course_urls, request, course_dict), request = [url, page]
build_index(index, course_urls, request, course_dict) ==
    LET course_cards == CardBodies(request.page.divs)
        common_words == identify_common_words(course_cards, THRESHOLD)
    IN  FoldCards([index |-> index, course_urls |-> course_urls, raised |-> FALSE],
                  course_cards, common_words, request.url, course_dict)


(***************************************************************************)
(* crawler.py: the link loop of go.                                        *)
(***************************************************************************)
\* lines 193-201 for one link, with converted_url what
\* convert_if_relative_url would return: the URLs put on the frontier
PutsFor(full_url, converted_url, visited_urls) ==
    IF full_url \in visited_urls THEN <<>>
    ELSE IF is_url_ok_to_follow(full_url, CRAWL_DOMAIN) THEN <<full_url>>
    ELSE IF converted_url # None THEN <<converted_url>>
    ELSE <<>>

LinkPutsFull(current_url, full_url, visited_urls) ==
    PutsFor(full_url, convert_if_relative_url(current_url, full_url), visited_urls)

\* the body of "for link in soup.find_all('a', href=True)" for one href
LinkPuts(current_url, href, visited_urls) ==
    LinkPutsFull(current_url, urljoin(current_url, href), visited_urls)

\* all the URLs the link loop puts on the frontier, in order
RECURSIVE DiscoverLinks(_, _, _)
DiscoverLinks(current_url, hrefs, visited_urls) ==
    IF hrefs = <<>> THEN <<>>
    ELSE LinkPuts(current_url, Head(hrefs), visited_urls)
         \o DiscoverLinks(current_url, Tail(hrefs), visited_urls)

\* mutant of LoopCondition: one more URL than the budget is visited
LoopCondition_OffByOne(queue, visited, budget) ==
    queue # <<>> /\ Cardinality(visited) <= budget

\* mutant of Put: the URLs are put at the front of the queue
Put_Front(queue, urls) == urls \o queue

\* urls_to_visit.put(url) for every url of urls, in order: the queue is FIFO
Put(queue, urls) == queue \o urls

\* the URLs ever put, in the order of their first put, after urls are put
RECURSIVE FirstPuts(_, _)
FirstPuts(seen, urls) ==
    IF urls = <<>> THEN seen
    ELSE FirstPuts(IF Head(urls) \in Range(seen) THEN seen ELSE Append(seen, Head(urls)),
                   Tail(urls))

\* the condition of the while loop
LoopCondition(queue, visited, budget) ==
    queue # <<>> /\ Cardinality(visited) < budget

\* mutant of AlreadyVisited: the visited test is lost
AlreadyVisited_Lost(current_url, visited) == FALSE

\* "if current_url in visited_urls: continue"
AlreadyVisited(current_url, visited) == current_url \in visited

\* requests.get has a connection adapter for http:// and https:// URLs only;
\* for every other URL it raises InvalidSchema
HasAdapter(url) ==
    StartsWith(Lower(url), <<"h","t","t","p",":","/","/">>) \/ StartsWith(Lower(url), <<"h","t","t","p","s",":","/","/">>)

\* the rows written to the index file: one [id, word] row per word
RECURSIVE IndexRows(_)
IndexRows(index) ==
    IF index = <<>> THEN <<>>
    ELSE [i \in 1..Len(Head(index).v) |-> <<Head(index).k, Head(index).v[i]>>]
         \o IndexRows(Tail(index))

\* the rows written to data/course_urls.csv
UrlRows(course_urls) == [i \in 1..Len(course_urls) |-> <<course_urls[i].k, course_urls[i].v>>]

(***************************************************************************)
(* The index file: csv.writer and csv.reader with delimiter "|".  The      *)
(* identifiers and words written hold no "|", quote or line break, so no   *)
(* field is quoted.                                                         *)
(***************************************************************************)
\* csvwriter.writerow(row): the line written, without its line terminator
CsvLine(row) == Join(row, <<"|">>)

\* the lines of the file go writes to output: the header, then one line per row
IndexFile(rows) ==
    <<CsvLine(<<<<"C","o","u","r","s","e"," ","I","D">>, <<"W","o","r","d">>>>)>> \o [i \in 1..Len(rows) |-> CsvLine(rows[i])]

\* the row csv.reader yields for a line
CsvRow(line) == Split(line, "|")

\* the loop of load_index over the rows after the header
RECURSIVE LoadRows(_, _)
LoadRows(loaded, lines) ==
    IF lines = <<>> THEN loaded
    ELSE LoadRows(dict_set(loaded, CsvRow(Head(lines))[1],
                           Append(dict_get(loaded, CsvRow(Head(lines))[1], <<>>),
                                  CsvRow(Head(lines))[2])),
                  Tail(lines))

\* util.load_index(csv_file), for the lines of the file
load_index(file) == LoadRows(<<>>, Tail(file))

(***************************************************************************)
(* The course dictionary and the pages a site may serve.                   *)
(***************************************************************************)
COURSE_DICT ==
    << [k |-> <<"I","n","t","r","o"," ","t","o"," ","X">>, v |-> <<"C","1">>],
       [k |-> <<"D","a","t","a"," ","L","a","b">>, v |-> <<"C","2">>],
       [k |-> <<"D","a","t","a"," ","L","a","b"," ","T","w","o">>, v |-> <<"C","3">>],
       [k |-> <<"Z","z"," ","T","o","p">>, v |-> ID_NOT_FOUND] >>

NoSubs == <<>>

\* the card of the spec's scenario
CardIntro ==
    [titles |-> <<<<"I","n","t","r","o"," ","t","o"," ","X">>>>, descs |-> <<<<"x"," ","y"," ","x"," ","z">>>>,
     hrefs |-> <<<<"/","c","1">>>>, subs |-> NoSubs, card |-> TRUE]

\* a card with nested blocks: one resolves, one has no title
CardSequence ==
    [titles |-> <<<<"D","a","t","a"," ","L","a","b">>>>, descs |-> <<<<"o","u","t","e","r"," ","o","n","l","y">>, <<"i","n","t","r","o">>>>,
     hrefs |-> <<<<"c","2",".","h","t","m","l">>>>,
     subs |-> << [titles |-> <<<<" ","D","a","t","a"," ","L","a","b"," ","T","w","o"," ">>>>, descs |-> <<<<" ","n","e","s","t","e","d"," ","t","e","x","t"," ">>, <<"m","o","r","e"," ","t","e","x","t">>>>,
                  hrefs |-> <<>>, subs |-> NoSubs, card |-> FALSE],
                 [titles |-> <<>>, descs |-> <<<<"o","r","p","h","a","n">>>>,
                  hrefs |-> <<<<"/","a">>>>, subs |-> NoSubs, card |-> FALSE] >>,
     card |-> TRUE]

\* a card whose description repeats a word THRESHOLD times
CardFrequent ==
    [titles |-> <<<<"I","n","t","r","o"," ","t","o"," ","X">>>>,
     descs |-> <<<<"s","o","l"," ","s","o","l"," ","s","o","l"," ","s","o","l"," ","s","o","l"," ","S","o","l"," ","s","o","l"," ","s","o","l"," ","s","o","l"," ","s","o","l"," ","l","u","n","a"," ","h","o","r","a">>>>,
     hrefs |-> <<<<"/","c","1","b">>>>, subs |-> NoSubs, card |-> TRUE]

\* a card whose nested block repeats a word THRESHOLD times
CardNestedFrequent ==
    [titles |-> <<<<"D","a","t","a"," ","L","a","b">>>>, descs |-> <<>>, hrefs |-> <<<<"/","c","2">>>>,
     subs |-> << [titles |-> <<<<"D","a","t","a"," ","L","a","b"," ","T","w","o">>>>,
                  descs |-> <<<<"m","a","r"," ","m","a","r"," ","m","a","r"," ","m","a","r"," ","m","a","r"," ","m","a","r"," ","m","a","r"," ","m","a","r"," ","m","a","r"," ","m","a","r"," ","p","r","e","c","i","o">>>>,
                  hrefs |-> <<>>, subs |-> NoSubs, card |-> FALSE] >>,
     card |-> TRUE]

\* a card that resolves and holds no anchor
CardNoAnchor ==
    [titles |-> <<<<"D","a","t","a"," ","L","a","b">>>>, descs |-> <<<<"n","o"," ","l","i","n","k">>>>,
     hrefs |-> <<>>, subs |-> NoSubs, card |-> TRUE]

\* a card whose title maps to the string "ID not found"
CardSentinel ==
    [titles |-> <<<<"Z","z"," ","T","o","p">>>>, descs |-> <<<<"r","o","c","k">>>>,
     hrefs |-> <<<<"/","z","z">>>>, subs |-> NoSubs, card |-> TRUE]

\* cards that do not resolve: a blank title, a title the dictionary lacks
CardBlank ==
    [titles |-> <<<<" "," ">>>>, descs |-> <<<<"b","l","a","n","k">>>>,
     hrefs |-> <<>>, subs |-> NoSubs, card |-> TRUE]

CardUnknown ==
    [titles |-> <<<<"i","n","t","r","o"," ","t","o"," ","x">>>>, descs |-> <<<<"l","o","w","e","r">>>>,
     hrefs |-> <<>>, subs |-> NoSubs, card |-> TRUE]

\* a card whose nested block resolves and has no description
CardNestedSilent ==
    [titles |-> <<<<"I","n","t","r","o"," ","t","o"," ","X">>>>, descs |-> <<>>, hrefs |-> <<<<"/","c","1">>>>,
     subs |-> << [titles |-> <<<<"D","a","t","a"," ","L","a","b"," ","T","w","o">>>>, descs |-> <<>>,
                  hrefs |-> <<>>, subs |-> NoSubs, card |-> FALSE] >>,
     card |-> TRUE]

\* a card whose description has the word sol once
CardOnce ==
    [titles |-> <<<<"I","n","t","r","o"," ","t","o"," ","X">>>>, descs |-> <<<<"s","o","l"," ","l","u","n","a">>>>,
     hrefs |-> <<<<"/","c","1","c">>>>, subs |-> NoSubs, card |-> TRUE]

Pages ==
    << [hrefs |-> <<<<"/","a">>, <<"m","a","i","l","t","o",":","x","@","y",".","c","o">>, <<"b",".","h","t","m","l">>>>,
        divs |-> <<CardIntro>>],
       [hrefs |-> <<<<"h","t","t","p","s",":","/","/","o","t","h","e","r",".","c","o","/">>, <<"/","f",".","p","d","f">>, <<"n","u","e","s","t","r","o","s","-","p","r","o","g","r","a","m","a","s","-","n","u","e","v","o">>>>,
        divs |-> <<CardSequence, CardSentinel>>],
       [hrefs |-> <<<<"/","c","1","b">>>>,
        divs |-> <<CardFrequent, CardNestedFrequent, CardBlank>>],
       [hrefs |-> <<<<"#","t","o","p">>, <<"j","a","v","a","s","c","r","i","p","t",":","v","o","i","d","(","0",")">>>>,
        divs |-> <<CardUnknown, CardNoAnchor>>],
       [hrefs |-> <<>>, divs |-> <<CardNestedSilent>>],
       [hrefs |-> <<>>, divs |-> <<CardOnce>>] >>

(***************************************************************************)
(* search.py: search(keywords, index, course_urls).                        *)
(***************************************************************************)
\* set(keyword.lower() for keyword in keywords)
\* mutant of KeywordSet: the keywords are not lower-cased
KeywordSet_CaseSensitive(keywords) == {keywords[i] : i \in 1..Len(keywords)}

\* set(keyword.lower() for keyword in keywords)
KeywordSet(keywords) == {Lower(keywords[i]) : i \in 1..Len(keywords)}

\* len(keywords.intersection(words))
Similarity(keyword_set, words) == Cardinality(keyword_set \cap Range(words))

\* mutant of IsRelevant: a similarity of zero counts as a match
IsRelevant_OrZero(similarity) == similarity >= 0

\* "if similarity > 0"
IsRelevant(similarity) == similarity > 0

\* the loop over index.items(): the (course_id, similarity) pairs kept, in index order
RECURSIVE SimilarityScores(_, _)
SimilarityScores(keyword_set, index) ==
    IF index = <<>> THEN <<>>
    ELSE (IF IsRelevant(Similarity(keyword_set, Head(index).v))
          THEN <<[course_id |-> Head(index).k,
                  similarity |-> Similarity(keyword_set, Head(index).v)]>>
          ELSE <<>>)
         \o SimilarityScores(keyword_set, Tail(index))

\* the place list.sort(reverse=True, key=...) gives entry i: after every entry
\* with a larger key and after the earlier entries with the same key (the
\* sort is stable, also with reverse=True)
SortedPlace(scores, i) ==
    1 + Cardinality({j \in 1..Len(scores) : scores[j].similarity > scores[i].similarity})
      + Cardinality({j \in 1..(i - 1) : scores[j].similarity = scores[i].similarity})

\* mutant of SortScores: reverse=True is lost, the sort is ascending
SortScores_Ascending(scores) ==
    [p \in 1..Len(scores) |->
        scores[CHOOSE i \in 1..Len(scores) :
            p = 1 + Cardinality({j \in 1..Len(scores) :
                                    scores[j].similarity < scores[i].similarity})
                  + Cardinality({j \in 1..(i - 1) :
                                    scores[j].similarity = scores[i].similarity})]]

\* mutant of SortScores: entries with the same key come out in reversed order
SortScores_TiesReversed(scores) ==
    [p \in 1..Len(scores) |->
        scores[CHOOSE i \in 1..Len(scores) :
            p = 1 + Cardinality({j \in 1..Len(scores) :
                                    scores[j].similarity > scores[i].similarity})
                  + Cardinality({j \in (i + 1)..Len(scores) :
                                    scores[j].similarity = scores[i].similarity})]]

\* similarity_scores.sort(reverse=True, key=lambda x: x[1])
SortScores(scores) ==
    [p \in 1..Len(scores) |->
        scores[CHOOSE i \in 1..Len(scores) : SortedPlace(scores, i) = p]]

\* mutant of LookupUrls: an identifier without a URL is dropped silently
LookupUrls_DropMissing(course_urls, scores) ==
    [raised |-> FALSE,
     value |-> LET kept == SelectSeq(scores, LAMBDA s : s.course_id \in Keys(course_urls))
               IN  [i \in 1..Len(kept) |-> Get(course_urls, kept[i].course_id)]]

\* [course_urls[course_id] for course_id, _ in similarity_scores]:
\* a KeyError is raised at the first course_id that course_urls lacks
LookupUrls(course_urls, scores) ==
    IF \E i \in 1..Len(scores) : scores[i].course_id \notin Keys(course_urls)
    THEN [raised |-> TRUE]
    ELSE [raised |-> FALSE,
          value |-> [i \in 1..Len(scores) |-> Get(course_urls, scores[i].course_id)]]

search(keywords, index, course_urls) ==
    LookupUrls(course_urls, SortScores(SimilarityScores(KeywordSet(keywords), index)))

(***************************************************************************)
(* The inputs search is applied to.                                        *)
(***************************************************************************)
KeywordPool == {<<"s","o","l">>, <<"S","o","l">>, <<"m","a","r">>}

IdList == <<<<"C","1">>, <<"C","2">>, <<"C","3">>>>

IdPool == Range(IdList)

WordLists == {<<>>, <<<<"m","a","r">>>>, <<<<"s","o","l">>, <<"m","a","r">>>>}

\* the sequences over S of length at most m
SeqsUpTo(S, m) == UNION {[1..k -> S] : k \in 0..m}

\* the indexes of at most MaxIds identifiers, in every insertion order
Indexes ==
    {idx \in SeqsUpTo([k : IdPool, v : WordLists], MaxIds) :
        \A i, j \in 1..Len(idx) : idx[i].k = idx[j].k => i = j}

UrlOf(id) == START_URL \o <<"/">> \o id

\* the URL maps: one for every set of identifiers that have a URL
UrlMapOver(ids) ==
    SelectSeq([i \in 1..Len(IdList) |-> [k |-> IdList[i], v |-> UrlOf(IdList[i])]],
              LAMBDA e : e.k \in ids)

UrlMaps == {UrlMapOver(ids) : ids \in SUBSET IdPool}

Queries == [keywords : SeqsUpTo(KeywordPool, MaxKeywords), index : Indexes, course_urls : UrlMaps]

(***************************************************************************)
(* The crawl: go(n, dictionary, output).                                   *)
(***************************************************************************)
VARIABLES
    pc,             \* "Idle", "Running", "Done", or "Aborted" by an exception
    n,              \* the page budget
    visited_urls,   \* set of URLs
    urls_to_visit,  \* the frontier: a FIFO queue of URLs
    index,          \* dict: course id -> list of words
    course_urls,    \* dict: course id -> URL
    output,         \* the two files written at the end, or NoOutput
    fetched,        \* history: the URLs passed to requests.get, in order
    put_urls,       \* history: the URLs put on the frontier by the link loop
    first_put,      \* history: the URLs ever put on the frontier, in the order of their first put
    last,           \* history: the last loop step and the index before it
    query,          \* the arguments of a call of search, or NoQuery
    result          \* what that call returned or raised, or NoResult

crawl_vars == <<pc, n, visited_urls, urls_to_visit, index, course_urls, output,
                fetched, put_urls, first_put, last>>

search_vars == <<query, result>>

vars == <<crawl_vars, search_vars>>

NoOutput == [written |-> FALSE]

NoStep == [op |-> "none"]

NoQuery == [asked |-> FALSE]

NoResult == [called |-> FALSE]

Idle ==
    /\ pc = "Idle"
    /\ n = 0
    /\ visited_urls = {}
    /\ urls_to_visit = <<>>
    /\ index = <<>>
    /\ course_urls = <<>>
    /\ output = NoOutput
    /\ fetched = <<>>
    /\ put_urls = {}
    /\ first_put = <<>>
    /\ last = NoStep

Init == Idle /\ query = NoQuery /\ result = NoResult

\* go is called with a page budget: lines 173-178
Go ==
    /\ pc = "Idle"
    /\ \E budget \in 1..MaxN : n' = budget
    /\ pc' = "Running"
    /\ index' = <<>>
    /\ course_urls' = <<>>
    /\ visited_urls' = {}
    /\ urls_to_visit' = <<START_URL>>
    /\ first_put' = <<START_URL>>
    /\ UNCHANGED <<output, fetched, put_urls, last, search_vars>>

\* a loop iteration that dequeues a URL already visited
LoopSkip ==
    /\ pc = "Running"
    /\ LoopCondition(urls_to_visit, visited_urls, n)
    /\ AlreadyVisited(Head(urls_to_visit), visited_urls)
    /\ urls_to_visit' = Tail(urls_to_visit)
    /\ last' = [op |-> "skip", url |-> Head(urls_to_visit)]
    /\ UNCHANGED <<pc, n, visited_urls, index, course_urls, output, fetched, put_urls,
                   first_put, search_vars>>

\* what every iteration that reaches requests.get does first: lines 180-186
Dequeue ==
    /\ pc = "Running"
    /\ LoopCondition(urls_to_visit, visited_urls, n)
    /\ ~AlreadyVisited(Head(urls_to_visit), visited_urls)
    /\ visited_urls' = visited_urls \cup {Head(urls_to_visit)}
    /\ fetched' = Append(fetched, Head(urls_to_visit))

\* a loop iteration whose fetch answers 200 with some page
FetchOk ==
    /\ Dequeue
    /\ HasAdapter(Head(urls_to_visit))
    /\ \E k \in 1..Len(Pages) :
        LET current_url == Head(urls_to_visit)
            puts == DiscoverLinks(current_url, PageHrefs(Pages[k]), visited_urls')
            st == build_index(index, course_urls,
                              [url |-> current_url, page |-> Pages[k]], COURSE_DICT)
        IN  /\ urls_to_visit' = Put(Tail(urls_to_visit), puts)
            /\ put_urls' = put_urls \cup Range(puts)
            /\ first_put' = FirstPuts(first_put, puts)
            /\ index' = st.index
            /\ course_urls' = st.course_urls
            /\ pc' = IF st.raised THEN "Aborted" ELSE "Running"
            /\ last' = [op |-> "fetch_ok", url |-> current_url, page |-> k,
                        index |-> index, course_urls |-> course_urls]
    /\ UNCHANGED <<n, output, search_vars>>

\* mutant of FetchNot200: the URL whose fetch failed is put back on the frontier
FetchNot200_Requeue ==
    /\ Dequeue
    /\ HasAdapter(Head(urls_to_visit))
    /\ urls_to_visit' = Append(Tail(urls_to_visit), Head(urls_to_visit))
    /\ last' = [op |-> "fetch_not_200", url |-> Head(urls_to_visit)]
    /\ UNCHANGED <<pc, n, index, course_urls, output, put_urls, first_put, search_vars>>

\* a loop iteration whose fetch answers with a status other than 200
FetchNot200 ==
    /\ Dequeue
    /\ HasAdapter(Head(urls_to_visit))
    /\ urls_to_visit' = Tail(urls_to_visit)
    /\ last' = [op |-> "fetch_not_200", url |-> Head(urls_to_visit)]
    /\ UNCHANGED <<pc, n, index, course_urls, output, put_urls, first_put, search_vars>>

\* a loop iteration whose requests.get raises a transport error: go has no
\* handler, so the exception ends the run before anything is written
FetchTransportError ==
    /\ Dequeue
    /\ HasAdapter(Head(urls_to_visit))
    /\ urls_to_visit' = Tail(urls_to_visit)
    /\ pc' = "Aborted"
    /\ last' = [op |-> "fetch_error", url |-> Head(urls_to_visit)]
    /\ UNCHANGED <<n, index, course_urls, output, put_urls, first_put, search_vars>>

\* a loop iteration whose URL requests.get cannot fetch at all (InvalidSchema)
FetchInvalidSchema ==
    /\ Dequeue
    /\ ~HasAdapter(Head(urls_to_visit))
    /\ urls_to_visit' = Tail(urls_to_visit)
    /\ pc' = "Aborted"
    /\ last' = [op |-> "fetch_invalid", url |-> Head(urls_to_visit)]
    /\ UNCHANGED <<n, index, course_urls, output, put_urls, first_put, search_vars>>

\* the loop condition is false: the two files are written, lines 205-216
Finish ==
    /\ pc = "Running"
    /\ ~LoopCondition(urls_to_visit, visited_urls, n)
    /\ output' = [written |-> TRUE, urls |-> UrlRows(course_urls),
                  index |-> IndexRows(index)]
    /\ pc' = "Done"
    /\ UNCHANGED <<n, visited_urls, urls_to_visit, index, course_urls,
                   fetched, put_urls, first_put, last, search_vars>>

Next ==
    \/ Go
    \/ LoopSkip
    \/ FetchOk
    \/ FetchNot200
    \/ FetchTransportError
    \/ FetchInvalidSchema
    \/ Finish

Spec == Init /\ [][Next]_vars

(***************************************************************************)
(* search applied to every query of the pools.                             *)
(***************************************************************************)
SearchInit == Idle /\ query \in Queries /\ result = NoResult

CallSearch ==
    /\ ~result.called
    /\ result' = [called |-> TRUE,
                  out |-> search(query.keywords, query.index, query.course_urls)]
    /\ UNCHANGED <<crawl_vars, query>>

SearchNext == CallSearch

SearchSpec == SearchInit /\ [][SearchNext]_vars

(***************************************************************************)
(* is_url_ok_to_follow applied to every URL of a pool.  A URL of the pool  *)
(* is a prefix, a host and a rest.                                          *)
(***************************************************************************)
UrlPrefixes ==
    {<<"h","t","t","p",":","/","/">>, <<"h","t","t","p","s",":","/","/">>, <<"h","t","t","p","x",":","/","/">>, <<"H","T","T","P",":","/","/">>, <<"f","t","p",":","/","/">>, <<"/","/">>, <<>>,
     <<"m","a","i","l","t","o",":">>}

UrlHosts == {<<"a",".","c","o">>, <<"b",".","c","o">>, <<"u","@","a",".","c","o">>, <<"a",".","c","o",":","8","0">>, <<"A",".","c","o">>}

UrlRests ==
    {<<>>, <<"/">>, <<"/","a">>, <<"/","a",".","h","t","m","l">>, <<"/","a",".","p","d","f">>, <<"/","a",".","b","/","c">>, <<"/","a","/","b",".","h","t","m","l","?","q","=","1">>, <<"/","x","@","y">>}

PolicyUrls == {p \o h \o r : p \in UrlPrefixes, h \in UrlHosts, r \in UrlRests}

PolicyDomains == {<<"a",".","c","o">>}

PolicyQueries == [url : PolicyUrls, domain : PolicyDomains]

PolicyInit == Idle /\ query \in PolicyQueries /\ result = NoResult

CallOkToFollow ==
    /\ ~result.called
    /\ result' = [called |-> TRUE, out |-> is_url_ok_to_follow(query.url, query.domain)]
    /\ UNCHANGED <<crawl_vars, query>>

PolicyNext == CallOkToFollow

PolicySpec == PolicyInit /\ [][PolicyNext]_vars

(***************************************************************************)
(* The properties of the crawl.                                            *)
(***************************************************************************)
HttpSchemes == {<<"h","t","t","p">>, <<"h","t","t","p","s">>}

FailedFetch == {"fetch_not_200", "fetch_error"}

\* the page the last step folded into the index
LastPage == Pages[last.page]

\* the words of an identifier before the last step
WordsBefore(id) == IF id \in Keys(last.index) THEN Range(Get(last.index, id)) ELSE {}

\* the words the last step added to an identifier
AddedWords(id) == Range(Get(index, id)) \ WordsBefore(id)

Words(text) == Range(findall(Lower(text)))

WordsOfAll(texts) == UNION {Words(Strip(texts[i])) : i \in 1..Len(texts)}

\* how often a word occurs in the combined title + description text of a page
PageCount(page, w) == Count(findall(Lower(CombinedText(CardBodies(page.divs)))), w)

\* the top-level cards of a page that have nested blocks, and those that have none
SequenceCards(page) == {i \in 1..Len(page.divs) : page.divs[i].subs # <<>>}
PlainCards(page) == {i \in 1..Len(page.divs) : page.divs[i].subs = <<>>}

\* the words of the titles of all cards and nested blocks of a page
TitleWords(page) ==
    UNION {WordsOfAll(AllTitles(page.divs[i])) : i \in 1..Len(page.divs)}

\* the words of the descriptions of the nested blocks of a page
NestedWords(page) ==
    UNION {WordsOfAll(FlatField(page.divs[i].subs, "descs")) : i \in SequenceCards(page)}

\* the words of the descriptions of the cards without nested blocks
PlainWords(page) == UNION {WordsOfAll(page.divs[i].descs) : i \in PlainCards(page)}

\* the words that occur on a page only in the own description of a card
\* that has nested blocks
OuterOnlyWords(page) ==
    UNION {WordsOfAll(page.divs[i].descs) : i \in SequenceCards(page)}
    \ (TitleWords(page) \cup NestedWords(page) \cup PlainWords(page))

\* C1: no URL is passed to requests.get more than once, and the visited set
\* never holds more than n URLs.
C1_FrontierDedup ==
    /\ IsDuplicateFree(fetched)
    /\ Cardinality(visited_urls) <= n

\* C1 witness: a URL fetched earlier was dequeued again and skipped.
C1_Witness ==
    /\ last.op = "skip"
    /\ last.url \in Range(fetched)
    /\ Cardinality(visited_urls) >= 2

\* C2: every URL the link loop puts on the frontier passes is_url_ok_to_follow,
\* and every URL fetched is an http(s) URL of the configured domain.
C2_DomainContainment ==
    /\ \A u \in put_urls : is_url_ok_to_follow(u, CRAWL_DOMAIN)
    /\ \A i \in 1..Len(fetched) :
          /\ urlparse(fetched[i]).netloc = CRAWL_DOMAIN
          /\ urlparse(fetched[i]).scheme \in HttpSchemes

\* C3: after a fetch failure of either kind the crawl is not aborted: it is
\* still running or finished.
C3_FetchFailureNeverAborts ==
    last.op \in FailedFetch => pc \in {"Running", "Done"}

\* C4: a run in which every fetch returns reaches Done: no exception ends it
\* before that (an aborted run takes no further step).
C4_ReachesDone ==
    pc = "Aborted" => last.op \in {"fetch_error", "fetch_invalid"}

\* C5: a word whose count in the page's combined text is at least the
\* threshold is not added by that page to any identifier.
C5_CommonWordExclusion ==
    last.op = "fetch_ok" =>
        \A id \in Keys(index) : \A w \in AddedWords(id) : PageCount(LastPage, w) < THRESHOLD

\* C6: the words a page adds come from card titles, from the descriptions of
\* cards without nested blocks and from the nested blocks; a word that occurs
\* only in the own description of a card with nested blocks is never added.
C6_NestedExclusivity ==
    last.op = "fetch_ok" =>
        \A id \in Keys(index) :
            /\ AddedWords(id) \subseteq
                   TitleWords(LastPage) \cup NestedWords(LastPage) \cup PlainWords(LastPage)
            /\ AddedWords(id) \cap OuterOnlyWords(LastPage) = {}

\* C6 witness: a page with a card whose own description has words of its own
\* was folded, and words of its nested blocks were added.
C6_Witness ==
    /\ last.op = "fetch_ok"
    /\ pc = "Running"
    /\ OuterOnlyWords(LastPage) # {}
    /\ \E id \in Keys(index) : AddedWords(id) \cap NestedWords(LastPage) # {}
    /\ \E i \in SequenceCards(LastPage) :
          dict_get(COURSE_DICT, extract_course_title(LastPage.divs[i]), ID_NOT_FOUND)
              \in Keys(index)

\* C7: every identifier of the index has a URL.
C7_IndexedHasUrl == Keys(index) \subseteq Keys(course_urls)

(***************************************************************************)
(* The properties of search.                                               *)
(***************************************************************************)
\* the overlap of an identifier of the query's index with the lower-cased keywords
Overlap(id) ==
    Cardinality({Lower(query.keywords[i]) : i \in 1..Len(query.keywords)}
                \cap Range(Get(query.index, id)))

Matching == {id \in Keys(query.index) : Overlap(id) > 0}

MissingUrl == {id \in Keys(query.index) : id \notin Keys(query.course_urls)}

\* C8: search raises whenever some identifier of the index has no URL.
C8_MissingUrlAlwaysRaises ==
    (result.called /\ MissingUrl # {}) => result.out.raised

\* C8 as amended: search raises exactly when an identifier that shares a word
\* with the keywords has no URL.
C8_MissingMatchRaises ==
    result.called => (result.out.raised <=> Matching \cap MissingUrl # {})

\* C8 witness: search raised for a matching identifier without a URL.
C8_Witness ==
    /\ result.called
    /\ result.out.raised
    /\ Matching \cap MissingUrl # {}

\* C9: with a complete URL map search returns exactly the URLs of the matching
\* identifiers, one each, in an order of non-increasing overlap.
C9_SearchRanking ==
    (result.called /\ MissingUrl = {}) =>
        /\ ~result.out.raised
        /\ Len(result.out.value) = Cardinality(Matching)
        /\ \E ids \in [1..Cardinality(Matching) -> Matching] :
              /\ \A i, j \in 1..Len(ids) : ids[i] = ids[j] => i = j
              /\ \A i \in 1..Len(ids) :
                    result.out.value[i] = Get(query.course_urls, ids[i])
              /\ \A i, j \in 1..Len(ids) : i < j => Overlap(ids[i]) >= Overlap(ids[j])

\* C9 witness: of three identifiers the first matches one keyword, the second
\* none and the third two; two URLs are returned.
C9_Witness ==
    /\ result.called
    /\ MissingUrl = {}
    /\ ~result.out.raised
    /\ Len(query.index) = 3
    /\ Len(result.out.value) = 2
    /\ Overlap(query.index[1].k) = 1
    /\ Overlap(query.index[2].k) = 0
    /\ Overlap(query.index[3].k) = 2

\* C10: search with no keyword returns the empty list.
C10_EmptyQuery ==
    (result.called /\ query.keywords = <<>>) =>
        /\ ~result.out.raised
        /\ result.out.value = <<>>

\* C10 witness: no keyword, an index with an identifier without words and an
\* identifier without a URL.
C10_Witness ==
    /\ result.called
    /\ query.keywords = <<>>
    /\ result.out = [raised |-> FALSE, value |-> <<>>]
    /\ \E id \in Keys(query.index) : Get(query.index, id) = <<>>
    /\ MissingUrl # {}

(***************************************************************************)
(* Further properties of the crawl.                                        *)
(***************************************************************************)
\* C11: in every step the index only grows: an identifier of the index stays
\* one, and every word of its list stays in its list.
C11_IndexMonotonic ==
    [][\A id \in Keys(index) :
          /\ id \in Keys(index')
          /\ Range(Get(index, id)) \subseteq Range(Get(index', id))]_vars

\* C11 witness: a page added a word to an identifier that had words already.
C11_Witness ==
    /\ last.op = "fetch_ok"
    /\ \E id \in Keys(last.index) :
          /\ Get(last.index, id) # <<>>
          /\ AddedWords(id) # {}

\* C12: in every step the URL recorded for an identifier stays what it is.
C12_FirstUrlWins ==
    [][\A id \in Keys(course_urls) :
          /\ id \in Keys(course_urls')
          /\ Get(course_urls', id) = Get(course_urls, id)]_vars

\* C12 witness: a page was folded that shows an identifier which had a URL
\* already in a card with a link to another URL.
C12_Witness ==
    /\ last.op = "fetch_ok"
    /\ \E id \in Keys(last.course_urls) : \E i \in 1..Len(LastPage.divs) :
          /\ dict_get(COURSE_DICT, extract_course_title(LastPage.divs[i]), ID_NOT_FOUND) = id
          /\ AllHrefs(LastPage.divs[i]) # <<>>
          /\ urljoin(last.url, Head(AllHrefs(LastPage.divs[i]))) # Get(last.course_urls, id)
          /\ Get(course_urls, id) = Get(last.course_urls, id)

\* the identifiers and word sets of an index, without the order
AsMapping(d) == [id \in Keys(d) |-> Range(Get(d, id))]

\* C13: the index file go wrote, reloaded by load_index, gives the identifiers
\* of the index with their word sets.
C13_RoundTrip ==
    pc = "Done" => AsMapping(load_index(IndexFile(output.index))) = AsMapping(index)

\* C14: the page with the single card "Intro to X" / "x y x z", folded into an
\* empty index, gives exactly C1 with the words intro, to, x, y, z.
C14_Scenario ==
    (last.op = "fetch_ok" /\ LastPage.divs = <<CardIntro>> /\ last.index = <<>>) =>
        AsMapping(index) = [id \in {<<"C","1">>} |-> {<<"i","n","t","r","o">>, <<"t","o">>, <<"x">>, <<"y">>, <<"z">>}]

\* C16: every fetch attempt, failed or not, uses one unit of the budget, and
\* a run that ends with URLs left on the frontier has visited exactly n URLs.
C16_BudgetCountsAttempts ==
    /\ Cardinality(visited_urls) = Len(fetched)
    /\ (pc = "Done" /\ urls_to_visit # <<>>) => Cardinality(visited_urls) = n

\* C16 witness: a run of budget 2 ended with URLs left on the frontier after
\* a fetch that failed.
C16_Witness ==
    /\ pc = "Done"
    /\ urls_to_visit # <<>>
    /\ last.op = "fetch_not_200"
    /\ n >= 2
    /\ Cardinality(visited_urls) = n

\* the steps that pass a URL to requests.get and get no page from it
FetchFails ==
    /\ fetched' # fetched
    /\ last'.op \in {"fetch_not_200", "fetch_error", "fetch_invalid"}

\* C17: a step whose fetch fails changes neither the index nor the URL map and
\* only takes its URL off the frontier; that URL is in the visited set, the
\* visited set never loses a URL and no visited URL is fetched.
C17_FailedFetchFrame ==
    [][/\ FetchFails =>
            /\ index' = index
            /\ course_urls' = course_urls
            /\ urls_to_visit' = Tail(urls_to_visit)
            /\ last'.url \in visited_urls'
       /\ visited_urls \subseteq visited_urls'
       /\ fetched' # fetched => fetched'[Len(fetched')] \notin visited_urls]_vars

\* C17 witness: a fetch failed while the index had entries and the frontier
\* had further URLs.
C17_Witness ==
    /\ last.op = "fetch_not_200"
    /\ index # <<>>
    /\ urls_to_visit # <<>>
    /\ last.url \in visited_urls

\* the identifier the dictionary gives for the title of a block
IdOf(block) == dict_get(COURSE_DICT, extract_course_title(block), ID_NOT_FOUND)

\* the nested blocks of a page that resolve to an identifier, as <<card, block>>
\* positions; a card with an empty title is skipped with its nested blocks
ResolvedNested(page) ==
    {p \in (1..Len(page.divs)) \X (1..2) :
        /\ p[2] <= Len(page.divs[p[1]].subs)
        /\ page.divs[p[1]].card
        /\ extract_course_title(page.divs[p[1]]) # <<>>
        /\ extract_course_title(page.divs[p[1]].subs[p[2]]) # <<>>
        /\ IdOf(page.divs[p[1]].subs[p[2]]) # ID_NOT_FOUND}

NestedBlock(page, p) == page.divs[p[1]].subs[p[2]]

\* the common words of a page
PageCommonWords(page) == identify_common_words(CardBodies(page.divs), THRESHOLD)

\* C18: after a page is folded, the words of the title and of the description
\* of each of its resolved nested blocks, common words apart, are words of the
\* block's identifier.
C18_NestedTitleAndDescription ==
    (last.op = "fetch_ok" /\ pc = "Running") =>
        \A p \in ResolvedNested(LastPage) :
            /\ IdOf(NestedBlock(LastPage, p)) \in Keys(index)
            /\ (Words(extract_course_title(NestedBlock(LastPage, p)))
                \cup Words(extract_course_description(NestedBlock(LastPage, p))))
               \ PageCommonWords(LastPage)
                   \subseteq Range(Get(index, IdOf(NestedBlock(LastPage, p))))

\* C19: no word of the preset stop-word list is a word of any identifier.
C19_NoPresetStopWord ==
    \A i \in 1..Len(index) : Range(index[i].v) \cap COMMON_WORDS = {}

\* the blocks of a page that build_index looks up: the cards with a title and
\* the titled nested blocks of those cards
TitledBlocks(page) ==
    LET cards == {page.divs[i] : i \in {j \in 1..Len(page.divs) :
                      page.divs[j].card /\ extract_course_title(page.divs[j]) # <<>>}}
    IN  cards \cup {c.subs[k] : <<c, k>> \in
                        {q \in cards \X (1..2) :
                            /\ q[2] <= Len(q[1].subs)
                            /\ extract_course_title(q[1].subs[q[2]]) # <<>>}}

\* the identifiers of the titled blocks whose title is a key of the dictionary
HitIds(page) ==
    {Get(COURSE_DICT, extract_course_title(b)) :
        b \in {c \in TitledBlocks(page) : extract_course_title(c) \in Keys(COURSE_DICT)}}

\* C20: a page that is folded without error gives an index entry to the
\* identifier of every titled block whose title is a key of the dictionary,
\* and new index entries to no other identifier.
C20_MissIsAbsentKey ==
    (last.op = "fetch_ok" /\ pc = "Running") =>
        /\ HitIds(LastPage) \subseteq Keys(index)
        /\ Keys(index) \ Keys(last.index) \subseteq HitIds(LastPage)

\* C21: the word list of an identifier holds no word twice.
C21_NoDuplicateWord ==
    \A i \in 1..Len(index) : IsDuplicateFree(index[i].v)

\* C21 witness: a page was folded with a card that offers its identifier a
\* word the identifier had from an earlier page.
C21_Witness ==
    /\ last.op = "fetch_ok"
    /\ pc = "Running"
    /\ \E i \in 1..Len(LastPage.divs) :
          /\ LastPage.divs[i].card
          /\ IdOf(LastPage.divs[i]) \in Keys(last.index)
          /\ Words(CardText(LastPage.divs[i])) \cap WordsBefore(IdOf(LastPage.divs[i])) # {}

\* the place of a URL in the order of first puts
PutPlace(u) == CHOOSE i \in 1..Len(first_put) : first_put[i] = u

\* the URLs on the frontier that are not visited
Waiting == Range(urls_to_visit) \ visited_urls

\* the place of the first occurrence of a URL on the frontier
QueuePlace(u) == Find(urls_to_visit, u)

\* C23: URLs are fetched in the order of their first put on the frontier: the
\* fetched URLs are in that order, each of them was put before every URL that
\* still waits on the frontier, and the waiting URLs stand in that order.
C23_FifoOrder ==
    /\ \A i, j \in 1..Len(fetched) : i < j => PutPlace(fetched[i]) < PutPlace(fetched[j])
    /\ \A i \in 1..Len(fetched) : \A u \in Waiting : PutPlace(fetched[i]) < PutPlace(u)
    /\ \A u, v \in Waiting : QueuePlace(u) < QueuePlace(v) => PutPlace(u) < PutPlace(v)

\* C23 witness: three URLs were fetched, the last one with a page, while two or
\* more URLs that were put later wait on the frontier.
C23_Witness ==
    /\ Len(fetched) = 3
    /\ last.op = "fetch_ok"
    /\ Cardinality({u \in Waiting : PutPlace(u) > PutPlace(fetched[3])}) >= 2

\* the words the last page gives an identifier when it is folded into an
\* empty index
FreshIndex ==
    build_index(<<>>, last.course_urls, [url |-> last.url, page |-> LastPage],
                COURSE_DICT).index

\* the words of an identifier in a dict, none when it is no key
WordsIn(d, id) == IF id \in Keys(d) THEN Range(Get(d, id)) ELSE {}

\* C24: what a page adds depends on the page alone: after a page is folded the
\* words of each identifier are the words it had together with the words the
\* page gives it when folded into an empty index.
C24_PerPageCommonWords ==
    (last.op = "fetch_ok" /\ pc = "Running") =>
        LET fresh == FreshIndex
        IN  /\ Keys(index) = Keys(last.index) \cup Keys(fresh)
            /\ \A id \in Keys(index) :
                  Range(Get(index, id)) = WordsBefore(id) \cup WordsIn(fresh, id)

\* C24 witness: a page on which a word reaches the threshold was folded after
\* a page that gave that word to the same identifier.
C24_Witness ==
    /\ last.op = "fetch_ok"
    /\ pc = "Running"
    /\ LET fresh == FreshIndex
       IN  \E id \in Keys(last.index) : \E w \in WordsBefore(id) :
              /\ PageCount(LastPage, w) >= THRESHOLD
              /\ w \notin WordsIn(fresh, id)
              /\ WordsIn(fresh, id) # {}
              /\ w \in Range(Get(index, id))

\* C26: the page of a fetch that answered 200 never ends the crawl:
\* build_index returns for every page.
C26_PageNeverAborts ==
    last.op = "fetch_ok" => pc # "Aborted"

(***************************************************************************)
(* Further properties of search.                                           *)
(***************************************************************************)
\* the URL of identifier a comes before the URL of identifier b in the result
UrlBefore(a, b) ==
    \E p, q \in 1..Len(result.out.value) :
        /\ p < q
        /\ result.out.value[p] = Get(query.course_urls, a)
        /\ result.out.value[q] = Get(query.course_urls, b)

\* C22: of two matching identifiers with the same overlap, the one inserted
\* into the index first has its URL first in the result.
C22_StableTies ==
    (result.called /\ ~result.out.raised) =>
        \A i, j \in 1..Len(query.index) :
            (i < j /\ Overlap(query.index[i].k) > 0
                   /\ Overlap(query.index[i].k) = Overlap(query.index[j].k))
                => UrlBefore(query.index[i].k, query.index[j].k)

\* C22 witness: C2 was inserted before C1, both match one keyword, and both
\* URLs are returned.
C22_Witness ==
    /\ result.called
    /\ ~result.out.raised
    /\ Len(query.index) >= 2
    /\ query.index[1].k = <<"C","2">>
    /\ query.index[2].k = <<"C","1">>
    /\ Overlap(query.index[1].k) = 1
    /\ Overlap(query.index[2].k) = 1
    /\ Len(result.out.value) >= 2

\* the lower-cased keywords of a keyword list
LowerSet(k) == {Lower(k[i]) : i \in 1..Len(k)}

\* the lower-cased keywords of the pool, in a fixed order
LowerKeywords == <<<<"s","o","l">>, <<"m","a","r">>>>

\* one keyword list for each set of lower-cased keywords: the list without
\* repetition, in lower case and in the fixed order
Canonical(k) == SelectSeq(LowerKeywords, LAMBDA w : w \in LowerSet(k))

\* C25: search gives the same result for every keyword list with the same set
\* of lower-cased keywords: the result for a list is the result for the one
\* list that stands for its set.
C25_KeywordSetOnly ==
    result.called =>
        /\ LowerSet(Canonical(query.keywords)) = LowerSet(query.keywords)
        /\ search(Canonical(query.keywords), query.index, query.course_urls) = result.out

\* C25 witness: the same keyword is given twice, in two letter cases, and a
\* URL is returned.
C25_Witness ==
    /\ result.called
    /\ ~result.out.raised
    /\ Len(query.keywords) = 2
    /\ query.keywords[1] # query.keywords[2]
    /\ Cardinality(LowerSet(query.keywords)) = 1
    /\ result.out.value # <<>>

(***************************************************************************)
(* The properties of the URL policy.                                       *)
(***************************************************************************)
\* the last segment of a path
LastSegment(path) == Split(path, "/")[Len(Split(path, "/"))]

\* what the policy is specified to answer for a URL
ShouldFollow(url, domain) ==
    /\ urlparse(url).scheme \in HttpSchemes
    /\ urlparse(url).netloc = domain
    /\ ~Contains(url, <<"@">>)
    /\ ~Contains(url, <<"m","a","i","l","t","o",":">>)
    /\ \/ EndsWith(urlparse(url).path, <<"/">>)
       \/ EndsWith(urlparse(url).path, <<".","h","t","m","l">>)
       \/ ~Contains(LastSegment(urlparse(url).path), <<".">>)

\* C15: is_url_ok_to_follow answers true exactly for the http(s) URLs of the
\* domain without "@" and "mailto:" whose path ends in "/" or ".html" or has a
\* last segment without ".".
C15_OkToFollowExact ==
    result.called => (result.out <=> ShouldFollow(query.url, query.domain))

=============================================================================
